---- MODULE Spec2Model ----
(***************************************************************************)
(* Model of scripts/test_degradation.py: the elliptical motion-blur        *)
(* degradation engine (region sampler, gradient mask, noise injector,      *)
(* command-line driver).                                                   *)
(*                                                                         *)
(* Numbers.  Python floats are modelled exactly where the code's decisions *)
(* are decisions on rationals (radii, offsets, truncations), and as fixed  *)
(* point with resolution 1/Scale where the code takes square roots of      *)
(* pixel distances (the gradient field).  Angles are unit vectors          *)
(* <<cos, sin>> = <<cn/dd, sn/dd>> with cn^2 + sn^2 = dd^2, so rotation,    *)
(* cosine and sine are exact.  Eccentricities are taken from the values    *)
(* whose sqrt(1 - e^2) is rational.  A draw from numpy's global generator  *)
(* is a nondeterministic choice (\E) from a finite set of values the       *)
(* generator can return, and is appended to the variable log.              *)
(***************************************************************************)
EXTENDS Integers, Sequences, FiniteSets, TLC

\* ------------------------------------------------------------ bounds
\* Resolution of the fixed-point numbers that stand for floats in [0, 1].
Scale == 1000
\* Largest side, in pixels, of an image whose pixels the model enumerates.
MaxSide == 4

\* ------------------------------------------------------- arithmetic
Min(x, y) == IF x <= y THEN x ELSE y
Max(x, y) == IF x >= y THEN x ELSE y
Abs(x) == IF x < 0 THEN -x ELSE x

\* int(x) of Python for x = n/d, d > 0: truncation toward zero.
TruncDiv(n, d) == IF n >= 0 THEN n \div d ELSE -((-n) \div d)

RECURSIVE ISqrtIn(_, _, _)
ISqrtIn(n, lo, hi) ==
    IF lo >= hi THEN lo
    ELSE LET mid == (lo + hi + 1) \div 2
         IN  IF mid * mid <= n THEN ISqrtIn(n, mid, hi) ELSE ISqrtIn(n, lo, mid - 1)

\* floor(sqrt(n)) for 0 <= n < 2^31.
ISqrt(n) == ISqrtIn(n, 0, Min(n, 46340))

\* floor(Scale * sqrt(n)): with r = floor(sqrt(n)), r * Scale plus the largest k
\* below Scale for which (r * Scale + k)^2 <= n * Scale^2.
RECURSIVE ScaledSqrtIn(_, _, _, _)
ScaledSqrtIn(r, rem, lo, hi) ==
    IF lo >= hi THEN lo
    ELSE LET mid == (lo + hi + 1) \div 2
         IN  IF 2 * r * Scale * mid + mid * mid <= rem * Scale * Scale
             THEN ScaledSqrtIn(r, rem, mid, hi) ELSE ScaledSqrtIn(r, rem, lo, mid - 1)

ScaledSqrt(n) ==
    LET r == ISqrt(n)
    IN  r * Scale + ScaledSqrtIn(r, n - r * r, 0, Scale - 1)

\* A non-negative rational n/d; d = 0 stands for float('inf').
Frac(n, d) == [n |-> n, d |-> d]
Inf == Frac(1, 0)
FracLess(x, y) == x.n * y.d < y.n * x.d
FracMin(x, y) == IF FracLess(y, x) THEN y ELSE x

\* ------------------------------------------------------------ state
VARIABLES
    pc,                  \* position in the program
    w, h,                \* image.shape[1], image.shape[0]
    area_percent,        \* Frac
    eccentricity,        \* index into EccTable
    a, b,                \* semi-axes, integers
    radial_angle,        \* unit vector [cn, sn, dd] of the radial direction
    max_dist_from_center,\* Frac
    dist,                \* Frac
    center_x, center_y,  \* the ellipse centre
    angle,               \* unit vector of the ellipse rotation
    fixed_angle,         \* the angle argument: a unit vector, or NoAngle for None
    ellipse_region,      \* the pixels <<x, y>> where mask > 0
    gradient,            \* the combined gradient, pixel -> 0 .. Scale
    image,               \* the input array, sample <<x, y, c>> -> 0 .. 255
    channels,            \* image.shape[2]; 1 stands for a two-dimensional array
    add_noise_flag,      \* argument of apply_elliptical_blur
    noise_intensity,     \* Frac
    noise_type,          \* 'gaussian', 'salt_pepper', 'mixed' or anything else
    noisy,               \* add_noise's working array, sample -> value * Scale
    coords_salt,         \* <<rows, columns>> drawn for the salt pass
    coords_pepper,       \* <<rows, columns>> drawn for the pepper pass
    result,              \* apply_elliptical_blur's working array, sample -> value * Scale
    level,               \* the blur levels already blended
    args,                \* the parsed command line
    input_file,          \* what the input path holds
    files,               \* the files written by cv2.imwrite, in order
    stdout, stderr,      \* what was printed, in order
    exit_status,         \* the process's exit status, NotExited while it runs
    i,                   \* the sample index of the batch loop
    platform,            \* how the floating-point unit and OpenCV resolved what the
                         \* model leaves open: site -> last inputs and outcome
    seeded,              \* the draws np.random replays once seeded, << >> when unseeded
    first,               \* what a first invocation left behind, NoRun before a second
    response,            \* analyze_results: the response calculate_metrics is given
    metrics,             \* analyze_results: the dictionary calculate_metrics returns
    log                  \* the draws taken from np.random, in order

samplerVars == <<w, h, area_percent, eccentricity, a, b, radial_angle,
                 max_dist_from_center, dist, center_x, center_y, angle, fixed_angle>>

samplerLocals == <<a, b, radial_angle, max_dist_from_center, dist, center_x, center_y, angle>>

maskVars == <<ellipse_region, gradient>>

argVars == <<image, channels, add_noise_flag, noise_intensity>>

noiseVars == <<noise_type, noisy, coords_salt, coords_pepper>>

blendVars == <<result, level>>

mainVars == <<args, input_file, files, stdout, stderr, exit_status, i>>

\* The state of ResultsAnalyzer.calculate_metrics.
analysisVars == <<response, metrics>>

\* What lies outside the random generator and one invocation.
outerVars == <<seeded, first, analysisVars>>

\* The state of apply_elliptical_blur and of what it calls.
applyVars == <<samplerVars, maskVars, argVars, noiseVars, blendVars>>

\* What the sampler's steps leave alone, and what the mask's step does.
afterSampler == <<maskVars, argVars, noiseVars, blendVars, mainVars, outerVars>>
afterMask == <<argVars, noiseVars, blendVars, mainVars, outerVars>>

vars == <<pc, samplerVars, maskVars, argVars, noiseVars, blendVars, mainVars,
          platform, outerVars, log>>

\* The state of each part before it runs.
SamplerIdle ==
    /\ a = 0 /\ b = 0
    /\ radial_angle = [cn |-> 0, sn |-> 0, dd |-> 0]
    /\ max_dist_from_center = [n |-> 0, d |-> 1]
    /\ dist = [n |-> 0, d |-> 1]
    /\ center_x = 0 /\ center_y = 0
    /\ angle = [cn |-> 0, sn |-> 0, dd |-> 0]

MaskIdle ==
    /\ ellipse_region = {}
    /\ gradient = << >>

NoiseIdle ==
    /\ noise_type = "mixed"
    /\ noisy = << >>
    /\ coords_salt = << >>
    /\ coords_pepper = << >>

BlendIdle ==
    /\ result = << >>
    /\ level = 0

NotExited == -1
NoRun == << >>
NoArgs == << >>

\* The process has written and printed nothing and has not exited.
NoOutput ==
    /\ files = << >>
    /\ stdout = << >>
    /\ stderr = << >>
    /\ exit_status = NotExited
    /\ i = 0

\* The call of apply_elliptical_blur returns into main, which made it, or to
\* a caller of its own.
MainCalls == DOMAIN args # {}

\* main is not running: a function is called on its own.
MainIdle ==
    /\ args = NoArgs
    /\ input_file = << >>
    /\ NoOutput

\* The places where the model leaves the platform's result open.
Sites == {"dist", "center_x", "center_y", "raster", "kernel"}

\* No response is being analysed.
NoResponse == << >>
NoMetrics == << >>
AnalysisIdle ==
    /\ response = NoResponse
    /\ metrics = NoMetrics

\* A fresh process: nothing resolved, the generator unseeded, nothing drawn.
Fresh ==
    /\ platform = [s \in Sites |-> [in |-> << >>, out |-> << >>]]
    /\ seeded = << >>
    /\ first = NoRun
    /\ log = << >>

\* The platform is deterministic: a site given the inputs it last had gives the
\* outcome it gave then; given others, any of its outcomes.
Resolve(site, in, outcomes) ==
    IF platform[site].in = in THEN { platform[site].out } ELSE outcomes

\* np.random once seeded replays its draws: the next draw is the seeded one when
\* there is one of the same kind, and any value otherwise.
Draw(entry) ==
    (Len(log) < Len(seeded) /\ seeded[Len(log) + 1][1] = entry[1])
        => entry = seeded[Len(log) + 1]

\* --------------------------------------------------------- constants
\* np.pi as the rational PiNum / PiDen.
PiNum == 355
PiDen == 113
\* min_dist_from_center = 80 + b
MinEdgeGap == 80
\* cos_r > 1e-6: the threshold is 1 / TinyInv.
TinyInv == 1000000

\* Eccentricities e = en/ed with sqrt(1 - e^2) = qn/qd rational.  lo = 1 where
\* the double sqrt(1 - e**2) lies below qn/qd far enough that a * sqrt(...)
\* falls below the integer a*qn/qd (e = 0.8: 5 * 0.5999999999999999 < 3).
\* Entry 6 is e = 1 (sqrt gives 0), entry 7 is e = 5/4 (sqrt gives nan).
EccTable == <<
    [en |-> 0,  ed |-> 1,  qn |-> 1,  qd |-> 1,  lo |-> 0, nan |-> FALSE],
    [en |-> 7,  ed |-> 25, qn |-> 24, qd |-> 25, lo |-> 0, nan |-> FALSE],
    [en |-> 3,  ed |-> 5,  qn |-> 4,  qd |-> 5,  lo |-> 0, nan |-> FALSE],
    [en |-> 4,  ed |-> 5,  qn |-> 3,  qd |-> 5,  lo |-> 1, nan |-> FALSE],
    [en |-> 24, ed |-> 25, qn |-> 7,  qd |-> 25, lo |-> 0, nan |-> FALSE],
    [en |-> 1,  ed |-> 1,  qn |-> 0,  qd |-> 1,  lo |-> 0, nan |-> FALSE],
    [en |-> 5,  ed |-> 4,  qn |-> 0,  qd |-> 1,  lo |-> 0, nan |-> TRUE] >>

\* The declared ranges: area_percent in (0, 1), eccentricity in [0, 1).
AreaInRange(p) == 0 < p.n /\ p.n < p.d
EccInRange(e) == EccTable[e].en < EccTable[e].ed

\* A unit vector <<cn/dd, sn/dd>>; NoAngle stands for angle = None.
Unit(cn, sn, dd) == [cn |-> cn, sn |-> sn, dd |-> dd]
NoAngle == Unit(0, 0, 0)
\* The angle turned by +90 degrees, and the sum of two angles.
Rot90(u) == Unit(-u.sn, u.cn, u.dd)
RotSum(u, v) == Unit(u.cn * v.cn - u.sn * v.sn, u.sn * v.cn + u.cn * v.sn, u.dd * v.dd)

\* ------------------------------------------- apply_elliptical_blur: sampler
img_center_x == w \div 2
img_center_y == h \div 2

\* int(np.sqrt(ellipse_area / (np.pi * np.sqrt(1 - eccentricity ** 2))))
\* raises when the operand is nan or inf: 1 - e^2 < 0, or = 0, or area < 0.
RadiiRaise(p, e) == EccTable[e].nan \/ EccTable[e].qn = 0 \/ p.n < 0

radii_a_ceil(ww, hh, p, e) ==
    ISqrt((PiDen * ww * hh * p.n * EccTable[e].qd) \div (PiNum * EccTable[e].qn * p.d)) + 1

\* a: the largest integer with pi * a^2 * sqrt(1 - e^2) <= w * h * area_percent.
radii_a(ww, hh, p, e) ==
    ISqrt((PiDen * ww * hh * p.n * EccTable[e].qd) \div (PiNum * EccTable[e].qn * p.d))

\* b = int(a * np.sqrt(1 - eccentricity ** 2))
radii_b(aa, e) ==
    LET q == EccTable[e]
    IN  IF q.lo = 1 /\ aa > 0 /\ (aa * q.qn) % q.qd = 0
        THEN (aa * q.qn) \div q.qd - 1
        ELSE (aa * q.qn) \div q.qd

margin == Max(a, b)
min_dist_from_center == MinEdgeGap + b

\* abs(max_dist_x), abs(max_dist_y): the largest offset along one axis.
MaxDistAxis(extent, ic, cn, dd) ==
    IF cn > 0
    THEN IF cn * TinyInv > dd THEN Frac(Abs(extent - margin - ic) * dd, cn) ELSE Inf
    ELSE IF cn < 0
         THEN IF cn * TinyInv < -dd THEN Frac(Abs(margin - ic) * dd, -cn) ELSE Inf
         ELSE Inf

MaxDist(r) == FracMin(MaxDistAxis(w, img_center_x, r.cn, r.dd),
                      MaxDistAxis(h, img_center_y, r.sn, r.dd))

\* max_dist_from_center < min_dist_from_center
Infeasible == FracLess(max_dist_from_center, Frac(min_dist_from_center, 1))
\* The quotient by a cosine other than 1 and -1 is rounded: where the two
\* distances are equal the comparison of the doubles can go either way.
RoundedEqual ==
    /\ max_dist_from_center.d # 1
    /\ max_dist_from_center.n = min_dist_from_center * max_dist_from_center.d

\* np.random.uniform(lo, hi) at the draw u = un/ud in [0, 1): lo + (hi - lo) * u
UniformDist(un, ud) ==
    LET m == max_dist_from_center
    IN  Frac(min_dist_from_center * m.d * ud + un * (m.n - min_dist_from_center * m.d),
             m.d * ud)

\* np.clip(x, lo, hi) = minimum(maximum(x, lo), hi), also when lo > hi.
Clip(x, lo, hi) == Min(Max(x, lo), hi)

\* int(n/d) where the double that stands for n/d carries rounding error: when
\* n/d is an integer k the double lies at k or just to one side of it, and
\* the truncation gives k or the integer next to it toward zero.  The
\* products with cos 0 = 1 and cos pi = -1 are exact (exact = TRUE).
TruncFloat(n, d, exact) ==
    IF n % d # 0 \/ exact \/ n = 0 THEN { TruncDiv(n, d) }
    ELSE IF n > 0 THEN { n \div d, n \div d - 1 }
         ELSE { TruncDiv(n, d), TruncDiv(n, d) + 1 }

\* int(img_center + dist * cos_r), before the clip
RawCenter(ic, cn, dd) ==
    TruncFloat(ic * dist.d * dd + dist.n * cn, dist.d * dd, dd = 1 /\ cn # 0)

\* The values the model lets np.random.uniform(0, 2 * np.pi) take.
RadialAngles ==
    { Unit(1, 0, 1), Unit(0, 1, 1), Unit(-1, 0, 1), Unit(0, -1, 1),
      Unit(3, 4, 5), Unit(4, 3, 5), Unit(-3, 4, 5), Unit(-4, -3, 5), Unit(3, -4, 5) }
\* np.random.uniform(-25, 25): 0, +16.26 and -16.26 degrees.
Perturbations == { Unit(1, 0, 1), Unit(24, 7, 25), Unit(24, -7, 25) }
\* np.random.uniform(lo, hi) returns lo + (hi - lo) * u, u = un / UDen, 0 <= un < UDen.
UDen == 2

\* lines 241-247: the semi-axes, or the exception int() raises on nan and inf.
ComputeRadii ==
    /\ pc = "radii"
    /\ IF RadiiRaise(area_percent, eccentricity)
       THEN /\ pc' = "raised"
            /\ UNCHANGED <<a, b>>
       ELSE /\ a' = radii_a(w, h, area_percent, eccentricity)
            /\ b' = radii_b(a', eccentricity)
            /\ pc' = "radial"
    /\ UNCHANGED <<w, h, area_percent, eccentricity, radial_angle, max_dist_from_center,
                   dist, center_x, center_y, angle, fixed_angle, log, platform, afterSampler>>

\* lines 259-281: the radial direction and the largest offset along it.
DrawRadialAngle ==
    /\ pc = "radial"
    /\ \E r \in RadialAngles :
          /\ Draw(<<"radial_angle", r>>)
          /\ radial_angle' = r
          /\ max_dist_from_center' = MaxDist(r)
          /\ log' = Append(log, <<"radial_angle", r>>)
    /\ pc' = "dist"
    /\ UNCHANGED <<w, h, area_percent, eccentricity, a, b, dist, center_x, center_y,
                   angle, fixed_angle, platform, afterSampler>>

\* Whether line 284 takes the clamped branch.
ClampOutcomes ==
    IF Infeasible THEN {TRUE} ELSE IF RoundedEqual THEN {TRUE, FALSE} ELSE {FALSE}

\* lines 284-288: where the region does not fit the offset is the largest one,
\* and otherwise it is drawn between the smallest and the largest.
ChooseDist ==
    /\ pc = "dist"
    /\ \E clamp \in Resolve("dist", <<max_dist_from_center, min_dist_from_center>>,
                             ClampOutcomes) :
          /\ platform' = [platform EXCEPT !["dist"] =
                             [in |-> <<max_dist_from_center, min_dist_from_center>>,
                              out |-> clamp]]
          /\ IF clamp
             THEN /\ dist' = max_dist_from_center
                  /\ UNCHANGED log
             ELSE \E un \in 0 .. (UDen - 1) :
                     /\ Draw(<<"dist", un>>)
                     /\ dist' = UniformDist(un, UDen)
                     /\ log' = Append(log, <<"dist", un>>)
    /\ pc' = "center"
    /\ UNCHANGED <<w, h, area_percent, eccentricity, a, b, radial_angle,
                   max_dist_from_center, center_x, center_y, angle, fixed_angle, afterSampler>>

\* lines 290-295: the integer centre, clipped to [margin, extent - margin].
PlaceCenter ==
    /\ pc = "center"
    /\ \E x \in Resolve("center_x", <<img_center_x, dist, radial_angle>>,
                         RawCenter(img_center_x, radial_angle.cn, radial_angle.dd)),
          y \in Resolve("center_y", <<img_center_y, dist, radial_angle>>,
                         RawCenter(img_center_y, radial_angle.sn, radial_angle.dd)) :
          /\ center_x' = Clip(x, margin, w - margin)
          /\ center_y' = Clip(y, margin, h - margin)
          /\ platform' = [platform EXCEPT
                 !["center_x"] = [in |-> <<img_center_x, dist, radial_angle>>, out |-> x],
                 !["center_y"] = [in |-> <<img_center_y, dist, radial_angle>>, out |-> y]]
    /\ pc' = "angle"
    /\ UNCHANGED <<w, h, area_percent, eccentricity, a, b, radial_angle,
                   max_dist_from_center, dist, angle, fixed_angle, log, afterSampler>>

\* lines 299-304: a given angle is kept; with angle None it is the tangent to
\* the radial direction plus a draw.
ChooseAngle ==
    /\ pc = "angle"
    /\ IF fixed_angle = NoAngle
       THEN \E d \in Perturbations :
               /\ Draw(<<"angle", d>>)
               /\ angle' = RotSum(Rot90(radial_angle), d)
               /\ log' = Append(log, <<"angle", d>>)
       ELSE /\ angle' = fixed_angle
            /\ UNCHANGED log
    /\ pc' = "mask"
    /\ UNCHANGED <<w, h, area_percent, eccentricity, a, b, radial_angle,
                   max_dist_from_center, dist, center_x, center_y, fixed_angle,
                   platform, afterSampler>>

Sampler == ComputeRadii \/ DrawRadialAngle \/ ChooseDist \/ PlaceCenter \/ ChooseAngle

\* ---------------------------------------------- the sampler on its own
\* apply_elliptical_blur called with arguments in their declared ranges, on
\* images of the sizes SamplerDims; the run stops where the mask is built.
SamplerDims == { <<512, 512>>, <<640, 480>>, <<300, 400>>, <<40, 38>>, <<10, 10>>, <<2, 2>> }
SamplerAreas == { Frac(1, 10), Frac(1, 4), Frac(1, 2) }
SamplerEccs == { e \in 1 .. Len(EccTable) : EccInRange(e) }

InitSampler ==
    /\ pc = "radii"
    /\ \E d \in SamplerDims : w = d[1] /\ h = d[2]
    /\ area_percent \in SamplerAreas
    /\ eccentricity \in SamplerEccs
    /\ fixed_angle \in { NoAngle, Unit(1, 0, 1) }
    /\ SamplerIdle
    /\ MaskIdle
    /\ image = << >>
    /\ channels = 3
    /\ add_noise_flag = FALSE
    /\ noise_intensity = Frac(0, 1)
    /\ NoiseIdle
    /\ BlendIdle
    /\ MainIdle
    /\ Fresh
    /\ AnalysisIdle

NextSampler == Sampler

SpecSampler == InitSampler /\ [][NextSampler]_vars

\* ------------------------------------------------ claims on the sampler
\* The sampler has returned its region (the mask is built next).
SamplerDone == pc = "mask"
\* The squared distance between the ellipse centre and the image centre.
CenterDist2 == (center_x - img_center_x) * (center_x - img_center_x)
                 + (center_y - img_center_y) * (center_y - img_center_y)
\* min(80 + b, max_feasible)
RequiredDist == FracMin(Frac(min_dist_from_center, 1), max_dist_from_center)

\* C2 (as claimed): the returned centre keeps centre - max(a, b) >= 0 and
\* centre + max(a, b) <= extent on both axes.
C2_ExtentWithinImage ==
    SamplerDone =>
        /\ center_x - margin >= 0 /\ center_x + margin <= w
        /\ center_y - margin >= 0 /\ center_y + margin <= h

\* C3 (as claimed): the returned integer centre is at least
\* min(80 + b, max_feasible) away from the image centre.
C3_CenterDistance ==
    SamplerDone =>
        CenterDist2 * RequiredDist.d * RequiredDist.d >= RequiredDist.n * RequiredDist.n

\* pi * x <= area_percent * w * h, and area_percent * w * h < pi * x
PiTimesAtMostArea(x) == PiNum * x * area_percent.d <= PiDen * w * h * area_percent.n
AreaBelowPiTimes(x) == PiDen * w * h * area_percent.n < PiNum * x * area_percent.d
RadiiDone == pc \notin { "radii", "raised" }

\* C4 (as claimed): a >= b > 0 and pi*a*b <= area_percent*w*h < pi*(a+1)*(b+1).
C4_Original ==
    RadiiDone => a >= b /\ b > 0 /\ PiTimesAtMostArea(a * b) /\ AreaBelowPiTimes((a + 1) * (b + 1))

\* C4 (amended): a >= b >= 0 and pi*a*b <= area_percent*w*h < pi*(a+1)*(b+2):
\* b truncates a * sqrt(1 - e^2) with a already truncated.
C4_RadiiArea ==
    RadiiDone => a >= b /\ b >= 0 /\ PiTimesAtMostArea(a * b) /\ AreaBelowPiTimes((a + 1) * (b + 2))

\* C4 witness: radii computed, b > 0, and the area is at least pi*(a+1)*(b+1).
C4_Witness ==
    RadiiDone /\ a > b /\ b > 0 /\ ~AreaBelowPiTimes((a + 1) * (b + 1))

\* ------------------------------------------------ create_gradient_mask
Pixels == { <<x, y>> : x \in 0 .. (w - 1), y \in 0 .. (h - 1) }

\* x_rot and y_rot times angle.dd: the pixel in the ellipse's frame (lines 102-107).
XRotNum(p) == (p[1] - center_x) * angle.cn + (p[2] - center_y) * angle.sn
YRotNum(p) == (p[2] - center_y) * angle.cn - (p[1] - center_x) * angle.sn

\* The pixels cv2.ellipse(mask, center, (a, b), angle, 0, 360, 255, -1) fills
\* for certain: those inside the ellipse (a segment or a point when an axis is 0).
IdealEllipse ==
    { p \in Pixels :
        IF a > 0 /\ b > 0
        THEN XRotNum(p) * XRotNum(p) * b * b + YRotNum(p) * YRotNum(p) * a * a
                 <= a * a * b * b * angle.dd * angle.dd
        ELSE /\ Abs(XRotNum(p)) <= a * angle.dd
             /\ Abs(YRotNum(p)) <= b * angle.dd }

\* The pixels next to the ellipse, which the rasteriser's rounding (integer
\* degrees, polygon edges rounded to pixels) may fill as well.
Fringe ==
    { p \in Pixels \ IdealEllipse :
        \E q \in IdealEllipse : Abs(p[1] - q[1]) <= 1 /\ Abs(p[2] - q[2]) <= 1 }

\* The masks the rasteriser can return: the ellipse, and the ellipse with one
\* or all of its fringe pixels.
Rasterised == { IdealEllipse, IdealEllipse \cup Fringe }
                 \cup { IdealEllipse \cup { p } : p \in Fringe }

\* dist_from_img_center (lines 92-95), times Scale.
DistImg(p) ==
    ScaledSqrt((p[1] - img_center_x) * (p[1] - img_center_x)
                 + (p[2] - img_center_y) * (p[2] - img_center_y))

\* dist_from_ellipse_center (lines 112-114), times Scale.
a_safe == Max(a, 1)
b_safe == Max(b, 1)
DistEllipse(p) ==
    LET xr == TruncDiv(XRotNum(p) * Scale, angle.dd)
        yr == TruncDiv(YRotNum(p) * Scale, angle.dd)
    IN  ISqrt((xr * xr) \div (a_safe * a_safe) + (yr * yr) \div (b_safe * b_safe))

SetMin(S) == CHOOSE x \in S : \A y \in S : x <= y
SetMax(S) == CHOOSE x \in S : \A y \in S : x >= y

\* smoothstep(x) for x in fixed point (lines 56-57).
smoothstep(x) ==
    LET c == Clip(x, 0, Scale)
    IN  (((c * c) \div Scale) * (3 * Scale - 2 * c)) \div Scale

\* np.clip(..., 0.05, 1.0): the floor, the float32 next above 0.05.
GradientFloor == (5 * Scale + 99) \div 100

\* (d - min) / (max - min) over the region, or the fallback (lines 134-147).
Normalised(d, lo, hi, fallback) ==
    IF hi > lo THEN ((d - lo) * Scale) \div (hi - lo) ELSE fallback

\* mask_radial_img, mask_ellipse_dist and combined at the pixels of region R
\* (lines 130-159).
mask_radial_img(R, p) ==
    LET ds == { DistImg(q) : q \in R }
    IN  Normalised(DistImg(p), SetMin(ds), SetMax(ds), Scale \div 2)
mask_ellipse_dist(R, p) ==
    LET ds == { DistEllipse(q) : q \in R }
    IN  Normalised(DistEllipse(p), SetMin(ds), SetMax(ds), 0)

\* The gradient without its floor: what line 168 would leave were it missing.
GradientOf_unfloored(R) ==
    IF R = {} THEN [p \in Pixels |-> 0]
    ELSE LET combined == [p \in R |->
                 (mask_radial_img(R, p) * (Scale - smoothstep(mask_ellipse_dist(R, p))))
                     \div Scale]
             cmax == SetMax({ combined[p] : p \in R })
         IN  [p \in Pixels |->
                 IF p \notin R THEN 0
                 ELSE IF cmax > 0 THEN (combined[p] * Scale) \div cmax ELSE combined[p]]

\* The gradient with the ellipse term not inverted, radial * smoothstep(ellipse):
\* rising from the ellipse centre to its boundary.
GradientOf_rising(R) ==
    IF R = {} THEN [p \in Pixels |-> 0]
    ELSE LET combined == [p \in R |->
                 (mask_radial_img(R, p) * smoothstep(mask_ellipse_dist(R, p))) \div Scale]
             cmax == SetMax({ combined[p] : p \in R })
         IN  [p \in Pixels |->
                 IF p \notin R THEN 0
                 ELSE Clip(IF cmax > 0 THEN (combined[p] * Scale) \div cmax ELSE combined[p],
                           GradientFloor, Scale)]

\* gradient as create_gradient_mask returns it for the mask R (lines 124-168):
\* zero off the region; on it radial * (1 - smoothstep(ellipse)), divided by
\* its maximum when that is positive, and clipped to [0.05, 1].
GradientOf(R) ==
    IF R = {} THEN [p \in Pixels |-> 0]
    ELSE LET ri == { DistImg(q) : q \in R }
             re == { DistEllipse(q) : q \in R }
             rlo == SetMin(ri)
             rhi == SetMax(ri)
             elo == SetMin(re)
             ehi == SetMax(re)
             combined == [p \in R |->
                 (Normalised(DistImg(p), rlo, rhi, Scale \div 2)
                    * (Scale - smoothstep(Normalised(DistEllipse(p), elo, ehi, 0))))
                     \div Scale]
             cmax == SetMax({ combined[p] : p \in R })
         IN  [p \in Pixels |->
                 IF p \notin R THEN 0
                 ELSE Clip(IF cmax > 0 THEN (combined[p] * Scale) \div cmax ELSE combined[p],
                           GradientFloor, Scale)]

\* line 312: the mask is rasterised and the gradient built on it.
CreateGradientMask ==
    /\ pc = "mask"
    /\ \E R \in Resolve("raster", <<w, h, center_x, center_y, a, b, angle>>, Rasterised) :
          /\ ellipse_region' = R
          /\ gradient' = GradientOf(R)
          /\ platform' = [platform EXCEPT !["raster"] =
                             [in |-> <<w, h, center_x, center_y, a, b, angle>>, out |-> R]]
    /\ pc' = "noise"
    /\ UNCHANGED <<samplerVars, afterMask, log>>

\* ------------------------------------- create_gradient_mask on its own
\* The function called with any geometry on images of up to MaxSide pixels a
\* side: centres in and just off the image, radii up to MaxRadius.
MaxRadius == 3
MaskAngles == { Unit(1, 0, 1), Unit(0, 1, 1), Unit(3, 4, 5), Unit(-4, 3, 5) }

InitMask ==
    /\ pc = "mask"
    /\ w = MaxSide
    /\ h \in (MaxSide - 1) .. MaxSide
    /\ center_x \in 0 .. w
    /\ center_y \in 1 .. (h - 1)
    /\ a \in 0 .. MaxRadius
    /\ b \in 0 .. a
    /\ angle \in MaskAngles
    /\ area_percent = Frac(0, 1)
    /\ eccentricity = 1
    /\ fixed_angle = angle
    /\ radial_angle = NoAngle
    /\ max_dist_from_center = Frac(0, 1)
    /\ dist = Frac(0, 1)
    /\ MaskIdle
    /\ image = << >>
    /\ channels = 3
    /\ add_noise_flag = FALSE
    /\ noise_intensity = Frac(0, 1)
    /\ NoiseIdle
    /\ BlendIdle
    /\ MainIdle
    /\ Fresh
    /\ AnalysisIdle

NextMask == CreateGradientMask

SpecMask == InitMask /\ [][NextMask]_vars

\* --------------------------------------------- claims on the gradient
\* create_gradient_mask has returned.
MaskDone == pc = "noise"

\* C1: every gradient value lies in [0, 1], is exactly 0 off the rasterised
\* ellipse region and is at least 0.05 on it.
C1_GradientRange ==
    MaskDone =>
        \A p \in Pixels :
            /\ 0 <= gradient[p] /\ gradient[p] <= Scale
            /\ p \notin ellipse_region => gradient[p] = 0
            /\ p \in ellipse_region => 100 * gradient[p] >= 5 * Scale

\* C1 witness: a mask with pixels off the region, pixels at the floor, and
\* pixels strictly between the floor and 1.
C1_Witness ==
    /\ MaskDone
    /\ \E p \in Pixels : p \notin ellipse_region
    /\ \E p \in ellipse_region : gradient[p] = GradientFloor
    /\ \E p \in ellipse_region : GradientFloor < gradient[p] /\ gradient[p] < Scale

\* The ellipse's geometric centre, and the region's pixels at normalised
\* elliptical distance 1.
GeometricCenter == <<center_x, center_y>>
BoundaryPixels ==
    LET ds == { DistEllipse(q) : q \in ellipse_region }
        lo == SetMin(ds)
        hi == SetMax(ds)
    IN  { p \in ellipse_region : Normalised(DistEllipse(p), lo, hi, 0) = Scale }

\* C10 (as claimed): the gradient at the geometric centre is about the floor
\* 0.05 (here: below 1/2) and at the boundary pixels it approaches 1 (here:
\* above 1/2).
C10_Original ==
    MaskDone /\ GeometricCenter \in ellipse_region /\ BoundaryPixels # {} =>
        /\ 2 * gradient[GeometricCenter] < Scale
        /\ \A p \in BoundaryPixels : 2 * gradient[p] > Scale

\* C10 (amended): the gradient at the boundary pixels (normalised elliptical
\* distance 1) is the floor 0.05; at the geometric centre (distance 0) it is
\* the re-normalised radial term alone, so it is at least the gradient of
\* every region pixel that is no farther from the image centre than it.
C10_CenterAndBoundary ==
    MaskDone =>
        /\ \A p \in BoundaryPixels : gradient[p] = GradientFloor
        /\ GeometricCenter \in ellipse_region =>
             /\ mask_ellipse_dist(ellipse_region, GeometricCenter) = 0
             /\ \A p \in ellipse_region :
                    DistImg(p) <= DistImg(GeometricCenter)
                        => gradient[p] <= gradient[GeometricCenter]

\* C10 witness: a region with its centre well above the floor (over 1/2) and
\* with boundary pixels other than the centre.
C10_Witness ==
    /\ MaskDone
    /\ GeometricCenter \in ellipse_region
    /\ 2 * gradient[GeometricCenter] > Scale
    /\ BoundaryPixels # {}
    /\ GeometricCenter \notin BoundaryPixels

\* C13: whenever the ellipse region holds a pixel, the gradient's maximum
\* over the region is exactly 1, before the 0.05 floor and after it, regions
\* of one or two pixels included.
C13_MaximumIsOne ==
    (MaskDone /\ ellipse_region # {}) =>
        /\ SetMax({ gradient[p] : p \in ellipse_region }) = Scale
        /\ SetMax({ GradientOf_unfloored(ellipse_region)[p] : p \in ellipse_region }) = Scale

\* ------------------------------------------------------------ add_noise
\* The samples of the array, <<x, y, c>>; noisy[row, column, channel] is the
\* sample <<column, row, channel>>.
Samples == (0 .. (w - 1)) \X (0 .. (h - 1)) \X (0 .. (channels - 1))

\* image.size
image_size == h * w * channels

\* astype(np.float32) of an integer array.
AsFloat(arr) == [s \in Samples |-> arr[s] * Scale]

MaxGrey == 255

\* line 214: np.clip(noisy, 0, 255).astype(np.uint8), which truncates.
ToUint8(arr) == [s \in Samples |-> Clip(arr[s], 0, MaxGrey * Scale) \div Scale]

\* line 189: sigma = 5 + intensity * 5
sigma == 5 * Scale + TruncDiv(5 * noise_intensity.n * Scale, noise_intensity.d)

\* np.random.normal(0, sigma, image.shape): the fields the model draws, per
\* sample in halves of sigma.
GaussPatterns == {"flat", "up", "down", "alternate"}

NormalDraw(k, s) ==
    CASE k = "flat" -> 0
      [] k = "up" -> 2
      [] k = "down" -> -2
      [] k = "alternate" -> IF (s[1] + s[2] + s[3]) % 2 = 0 THEN 3 ELSE -3

\* line 195: amount = 0.005 * intensity, as amount = AmountNum * intensity / AmountDen
AmountNum == 5
AmountDen == 1000

\* lines 198 and 206: int(amount * image.size)
num_salt(size) ==
    TruncDiv(AmountNum * noise_intensity.n * size, AmountDen * noise_intensity.d)

\* np.random.randint(0, i, num) for the rows and the columns: the draws the
\* model takes, the far corner being open to both passes.
SaltRows == {0, h - 1}
SaltCols == {0, w - 1}
PepperRows == {h - 1}
PepperCols == {Min(1, w - 1), w - 1}

\* noisy[coords[0], coords[1], :] = v, and the two-dimensional form of it.
Painted(arr, coords, v) ==
    [s \in Samples |->
        IF \E k \in 1 .. Len(coords[1]) : coords[1][k] = s[2] /\ coords[2][k] = s[1]
        THEN v * Scale ELSE arr[s]]

\* lines 318-319 with add_noise_flag set: add_noise(result, 'mixed', noise_intensity)
\* is entered, line 185 copying its argument.
EnterNoise ==
    /\ pc = "noise"
    /\ add_noise_flag
    /\ noise_type' = "mixed"
    /\ noisy' = AsFloat(image)
    /\ pc' = "gaussian"
    /\ UNCHANGED <<samplerVars, maskVars, argVars, coords_salt, coords_pepper, blendVars,
                   mainVars, platform, outerVars, log>>

\* lines 315-319 with add_noise_flag clear: result is the float copy of image.
SkipNoise ==
    /\ pc = "noise"
    /\ ~add_noise_flag
    /\ result' = AsFloat(image)
    /\ level' = 0
    /\ pc' = "blend"
    /\ UNCHANGED <<samplerVars, maskVars, argVars, noiseVars, mainVars, platform,
                   outerVars, log>>

\* lines 187-191: np.random.normal raises ValueError on a negative sigma.
GaussianNoise ==
    /\ pc = "gaussian"
    /\ IF noise_type \in {"gaussian", "mixed"}
       THEN IF sigma < 0
            THEN /\ pc' = "raised"
                 /\ UNCHANGED <<noisy, log>>
            ELSE \E k \in GaussPatterns :
                    /\ Draw(<<"normal", k>>)
                    /\ noisy' = [s \in Samples |->
                                    noisy[s] + TruncDiv(NormalDraw(k, s) * sigma, 2)]
                    /\ log' = Append(log, <<"normal", k>>)
                    /\ pc' = "salt"
       ELSE /\ pc' = "salt"
            /\ UNCHANGED <<noisy, log>>
    /\ UNCHANGED <<samplerVars, maskVars, argVars, noise_type, coords_salt,
                   coords_pepper, blendVars, mainVars, platform, outerVars>>

\* lines 193-203: np.random.randint raises ValueError on a negative count.
SaltNoise ==
    /\ pc = "salt"
    /\ IF noise_type \in {"salt_pepper", "mixed"}
       THEN IF num_salt(image_size) < 0
            THEN /\ pc' = "raised"
                 /\ UNCHANGED <<noisy, coords_salt, log>>
            ELSE \E rows \in [1 .. num_salt(image_size) -> SaltRows],
                    cols \in [1 .. num_salt(image_size) -> SaltCols] :
                    /\ Draw(<<"randint", rows, cols>>)
                    /\ coords_salt' = <<rows, cols>>
                    /\ noisy' = Painted(noisy, <<rows, cols>>, MaxGrey)
                    /\ log' = Append(log, <<"randint", rows, cols>>)
                    /\ pc' = "pepper"
       ELSE /\ pc' = "clip"
            /\ UNCHANGED <<noisy, coords_salt, log>>
    /\ UNCHANGED <<samplerVars, maskVars, argVars, noise_type, coords_pepper, blendVars,
                   mainVars, platform, outerVars>>

\* lines 205-211
PepperNoise ==
    /\ pc = "pepper"
    /\ \E rows \in [1 .. num_salt(image_size) -> PepperRows],
          cols \in [1 .. num_salt(image_size) -> PepperCols] :
          /\ Draw(<<"randint", rows, cols>>)
          /\ coords_pepper' = <<rows, cols>>
          /\ noisy' = Painted(noisy, <<rows, cols>>, 0)
          /\ log' = Append(log, <<"randint", rows, cols>>)
    /\ pc' = "clip"
    /\ UNCHANGED <<samplerVars, maskVars, argVars, noise_type, coords_salt, blendVars,
                   mainVars, platform, outerVars>>

\* lines 213-216, and line 319 taking the returned array as result.
ReturnNoise ==
    /\ pc = "clip"
    /\ result' = AsFloat(ToUint8(noisy))
    /\ level' = 0
    /\ pc' = "blend"
    /\ UNCHANGED <<samplerVars, maskVars, argVars, noiseVars, mainVars, platform,
                   outerVars, log>>

AddNoise == GaussianNoise \/ SaltNoise \/ PepperNoise \/ ReturnNoise

\* ------------------------------------------- create_motion_blur_kernel
\* motion_angle (lines 307-309) is the direction <<dx, dy>> from the image
\* centre to the ellipse centre; np.arctan2(0, 0) is 0, the direction <<1, 0>>.
motion_dx == IF center_x = img_center_x /\ center_y = img_center_y
             THEN 1 ELSE center_x - img_center_x
motion_dy == center_y - img_center_y

\* floor(t / sqrt(m)) for m > 0
FloorRatio(t, m) ==
    LET k == ISqrt((t * t) \div m)
    IN  IF t >= 0 THEN k ELSE IF k * k * m = t * t THEN -k ELSE -(k + 1)

\* The doubles cos(pi/2) = 6.12e-17 and sin(pi) = 1.22e-16, in units of
\* 2^-53 / EpsDen.
CosQuarterTurn == 55154
SinHalfTurn == 110308
EpsDen == 100000

Log2Floor(c) == CHOOSE k \in 0 .. 30 : 2 ^ k <= c /\ c < 2 ^ (k + 1)

\* Whether the double c - off * eps rounds below c, eps being one of the two
\* above: the gap to the double below c is 2^(k-53) over half when c = 2^k.
RoundsBelow(c, off, eps) ==
    LET k == Log2Floor(c)
    IN  IF 2 ^ k = c THEN 2 * off * eps > (2 ^ k) * EpsDen
        ELSE off * eps > (2 ^ k) * EpsDen

\* int(center + offset * dx) and int(center + offset * dy) of lines 38-39, as
\* the set of values the doubles can give.  Along an axis the cosine and the
\* sine are 1, -1 and 0 but for the two doubles above; elsewhere a product
\* that is an integer may land on either side of it.
LineX(c, off) ==
    LET m == motion_dx * motion_dx + motion_dy * motion_dy
        k == c + FloorRatio(off * motion_dx, m)
    IN  IF motion_dx = 0
        THEN IF off < 0 /\ RoundsBelow(c, -off, CosQuarterTurn) THEN { c - 1 } ELSE { c }
        ELSE IF motion_dy = 0 \/ off = 0 THEN { k }
        ELSE IF FloorRatio(off * motion_dx, m) * FloorRatio(off * motion_dx, m) * m
                    = off * motion_dx * off * motion_dx
             THEN { k, k - 1 } ELSE { k }

LineY(c, off) ==
    LET m == motion_dx * motion_dx + motion_dy * motion_dy
        k == c + FloorRatio(off * motion_dy, m)
    IN  IF motion_dy = 0
        THEN IF motion_dx < 0 /\ off > 0 /\ RoundsBelow(c, off, SinHalfTurn)
             THEN { c - 1 } ELSE { c }
        ELSE IF motion_dx = 0 \/ off = 0 THEN { k }
        ELSE IF FloorRatio(off * motion_dy, m) * FloorRatio(off * motion_dy, m) * m
                    = off * motion_dy * off * motion_dy
             THEN { k, k - 1 } ELSE { k }

\* lines 36-42: the cells <<x, y>> the loop can set to 1, as a set of sets, one
\* per way the doubles can fall.
RECURSIVE KernelCellsFrom(_, _)
KernelCellsFrom(size, n) ==
    IF n = size THEN { {} }
    ELSE LET center == size \div 2
             here == { <<x, y>> \in LineX(center, n - center) \X LineY(center, n - center) :
                          TRUE }
         IN  { (IF 0 <= c[1] /\ c[1] < size /\ 0 <= c[2] /\ c[2] < size THEN {c} ELSE {})
                  \cup rest : c \in here, rest \in KernelCellsFrom(size, n + 1) }

\* create_motion_blur_kernel(size, motion_angle): the cells of weight
\* 1 / kernel.sum(), every other cell being 0.
create_motion_blur_kernel(size) == KernelCellsFrom(size, 0)

\* ------------------------------------------------- the blur pyramid
\* line 322: blur_levels = [3, 6, ..., 36]
NumLevels == 12
\* The kernel sizes from the strongest to the weakest.
blur_levels_descending == [n \in 1 .. NumLevels |-> 3 * (NumLevels + 1 - n)]

\* line 322
blur_levels == [n \in 1 .. NumLevels |-> 3 * n]

\* cv2.filter2D's default border, BORDER_REFLECT_101: the index p folded into
\* 0 .. len - 1 without repeating the edge sample.
Reflect101(p, len) ==
    IF len = 1 THEN 0
    ELSE LET q == p % (2 * (len - 1))
         IN  IF q < len THEN q ELSE 2 * (len - 1) - q

\* line 335: cv2.filter2D(image.astype(np.float32), -1, kernel) at sample s,
\* times Scale: the correlation anchored at the kernel's cell size // 2 with
\* every set cell weighing 1 / kernel.sum().
RECURSIVE SumOver(_, _)
SumOver(f, S) ==
    IF S = {} THEN 0
    ELSE LET c == CHOOSE c \in S : TRUE
         IN  f[c] + SumOver(f, S \ {c})

filter2D(src, cells, size, s) ==
    LET anchor == size \div 2
        tap == [c \in cells |->
                   src[<<Reflect101(s[1] + c[1] - anchor, w),
                         Reflect101(s[2] + c[2] - anchor, h), s[3]>>]]
    IN  (SumOver(tap, cells) * Scale) \div Cardinality(cells)

\* The image filtered is the accumulator of the loop, not the original.
blurred_cumulative(cells, size, s) ==
    filter2D([t \in Samples |-> result[t] \div Scale], cells, size, s)

\* line 335: the image filtered is the function's argument, at every level.
blurred(cells, size, s) == filter2D(image, cells, size, s)

\* The level's weight clipped to [0, 1/2]: no level replaces the accumulator.
level_mask_capped(n, p) == Clip(NumLevels * gradient[p] - n * Scale, 0, Scale \div 2)

\* The level's weight clipped from above only.
level_mask_unclipped(n, p) == Min(NumLevels * gradient[p] - n * Scale, Scale)

\* lines 327-331: np.clip((gradient_mask - level_min) / (level_max - level_min), 0, 1)
level_mask(n, p) == Clip(NumLevels * gradient[p] - n * Scale, 0, Scale)

\* lines 325-339, one turn of the loop: the original image is blurred with
\* this level's kernel and blended into result by the level mask.  Where the
\* mask is 0 the sum result * 1 + blurred * 0 is result itself.
BlendLevel ==
    /\ pc = "blend"
    /\ level < NumLevels
    /\ \E cells \in Resolve("kernel", <<blur_levels[level + 1], motion_dx, motion_dy>>,
                            create_motion_blur_kernel(blur_levels[level + 1])) :
          /\ result' = [s \in Samples |->
                LET m == level_mask(level, <<s[1], s[2]>>)
                IN  IF m = 0 THEN result[s]
                    ELSE (result[s] * (Scale - m)
                            + blurred(cells, blur_levels[level + 1], s) * m) \div Scale]
          /\ platform' = [platform EXCEPT !["kernel"] =
                 [in |-> <<blur_levels[level + 1], motion_dx, motion_dy>>, out |-> cells]]
    /\ level' = level + 1
    /\ UNCHANGED <<pc, samplerVars, maskVars, argVars, noiseVars, mainVars, outerVars, log>>

\* line 341: result.astype(np.uint8), and the return of line 353.
FinishBlend ==
    /\ pc = "blend"
    /\ level = NumLevels
    /\ result' = AsFloat([s \in Samples |-> result[s] \div Scale])
    /\ pc' = "return"
    /\ UNCHANGED <<level, samplerVars, maskVars, argVars, noiseVars, mainVars, platform,
                   outerVars, log>>

Blend == BlendLevel \/ FinishBlend

\* lines 343-351: the three masks as images.
mask_combined == [p \in Pixels |-> (gradient[p] * MaxGrey) \div Scale]

mask_radial_visual ==
    LET max_dist == ScaledSqrt(img_center_x * img_center_x + img_center_y * img_center_y)
    IN  [p \in Pixels |->
            IF max_dist > 0 THEN (DistImg(p) * MaxGrey) \div (2 * max_dist) ELSE 0]

mask_ellipse_visual ==
    [p \in Pixels |->
        IF p \in ellipse_region
        THEN ((Scale - smoothstep(mask_ellipse_dist(ellipse_region, p))) * MaxGrey) \div Scale
        ELSE 0]

\* --------------------------------------------------- add_noise on its own
\* The function called on colour and two-dimensional arrays, large enough for
\* the salt and pepper passes to draw coordinates, and on a small one.
NoiseShapes == { <<20, 10, 3>>, <<20, 10, 1>>, <<2, 2, 3>> }
NoiseIntensities == { Frac(0, 1), Frac(1, 2), Frac(1, 1), Frac(-2, 1) }
NoiseTypes == {"gaussian", "salt_pepper", "mixed", "none"}

\* The input arrays: mid grey, a ramp, and black and white.
TestImages ==
    { [s \in Samples |-> 128],
      [s \in Samples |-> 1 + ((40 * s[1] + 90 * s[2] + 100 * s[3]) % 254)],
      [s \in Samples |-> IF (s[1] + s[2] + s[3]) % 2 = 0 THEN 0 ELSE MaxGrey] }

InitNoise ==
    /\ pc = "gaussian"
    /\ \E shape \in NoiseShapes :
          /\ w = shape[1]
          /\ h = shape[2]
          /\ channels = shape[3]
    /\ image \in TestImages
    /\ noise_intensity \in NoiseIntensities
    /\ noise_type \in NoiseTypes
    /\ noisy = AsFloat(image)
    /\ coords_salt = << >>
    /\ coords_pepper = << >>
    /\ add_noise_flag = TRUE
    /\ BlendIdle
    /\ area_percent = Frac(0, 1)
    /\ eccentricity = 1
    /\ fixed_angle = NoAngle
    /\ SamplerIdle
    /\ MaskIdle
    /\ MainIdle
    /\ Fresh
    /\ AnalysisIdle

NextNoise == AddNoise

SpecNoise == InitNoise /\ [][NextNoise]_vars

\* ------------------------------------------------ claims on add_noise
\* add_noise has returned.
NoiseDone == pc = "blend"

\* round(n / d) for n / d >= 0, ties to the even integer.
RoundHalfEven(n, d) ==
    LET q == n \div d
        r == n % d
    IN  IF 2 * r < d THEN q
        ELSE IF 2 * r > d THEN q + 1
        ELSE IF q % 2 = 0 THEN q ELSE q + 1

\* round(0.005 * t * (h * w)), the count over pixels.
CountOverPixels ==
    RoundHalfEven(AmountNum * noise_intensity.n * h * w, AmountDen * noise_intensity.d)

\* The pixels of the returned array every channel of which has the value v.
PixelsAt(v) ==
    { p \in (0 .. (w - 1)) \X (0 .. (h - 1)) :
        \A c \in 0 .. (channels - 1) : result[<<p[1], p[2], c>>] = v * Scale }

\* The coordinate pairs of a pass.
Drawn(coords) == { <<coords[2][k], coords[1][k]>> : k \in 1 .. Len(coords[1]) }

NoCollision ==
    /\ Cardinality(Drawn(coords_salt)) = Len(coords_salt[1])
    /\ Cardinality(Drawn(coords_pepper)) = Len(coords_pepper[1])
    /\ Drawn(coords_salt) \cap Drawn(coords_pepper) = {}

\* C7: salt-and-pepper injection at intensity t in [0, 1] on an image of h * w
\* pixels draws round(0.005 * t * h * w) salt coordinates and as many pepper
\* coordinates, the count taken over pixels; at intensity 1 on an image with no
\* black or white pixel the pixels set to 255 and those set to 0 each number
\* within one of that count, fewer only where draws collide.
C7_SaltPepperCount ==
    (/\ NoiseDone
     /\ noise_type = "salt_pepper"
     /\ noise_intensity \in {Frac(0, 1), Frac(1, 2), Frac(1, 1)})
    => /\ Len(coords_salt[1]) = CountOverPixels
       /\ Len(coords_pepper[1]) = CountOverPixels
       /\ (/\ noise_intensity = Frac(1, 1)
           /\ \A s \in Samples : image[s] \notin {0, MaxGrey})
          => /\ Cardinality(PixelsAt(MaxGrey)) <= CountOverPixels + 1
             /\ Cardinality(PixelsAt(0)) <= CountOverPixels + 1
             /\ NoCollision => /\ Cardinality(PixelsAt(MaxGrey)) >= CountOverPixels - 1
                               /\ Cardinality(PixelsAt(0)) >= CountOverPixels - 1

\* C12: Gaussian noise injection at intensity 0 leaves every sample of the
\* returned 8-bit image within 1 of its original value.
C12_GaussianZeroWithinOne ==
    (NoiseDone /\ noise_type = "gaussian" /\ noise_intensity.n = 0) =>
        \A s \in Samples : Abs(result[s] - image[s] * Scale) <= Scale

\* ------------------------------------------------------------------ main
\* np.random.uniform(lo, hi) for the area: lo + (hi - lo) * un / UDen, 0 <= un < UDen.
AreaDraws(lo, hi) ==
    IF lo = hi THEN { lo }
    ELSE { IF un = 0 THEN lo
           ELSE Frac(lo.n * hi.d * (UDen - un) + hi.n * lo.d * un, lo.d * hi.d * UDen) :
             un \in 0 .. (UDen - 1) }

\* np.random.uniform(lo, hi) for the eccentricity: lo, and the entries of
\* EccTable in [lo, hi).
EccDraws(lo, hi) ==
    { e \in DOMAIN EccTable :
        LET q == EccTable[e]
        IN  \/ q.en * lo.d = lo.n * q.ed
            \/ (lo.n * q.ed <= q.en * lo.d /\ q.en * hi.d < hi.n * q.ed) }

\* output_path.suffix.lower() in ['.jpg', '.jpeg']
IsJpeg(path) == path \in {"out/deg.jpg", "out/DEG.JPEG"}
JpegQuality == 95
NoNumber == -1

\* The array as cv2.imwrite stores it.
Stored(arr) == [s \in DOMAIN arr |-> arr[s] \div Scale]

\* lines 381-384
CheckExists ==
    /\ pc = "start"
    /\ IF input_file.state = "missing"
       THEN /\ stderr' = Append(stderr, "Erro: Arquivo nao encontrado")
            /\ exit_status' = 1
            /\ pc' = "exited"
       ELSE /\ pc' = "imread"
            /\ UNCHANGED <<stderr, exit_status>>
    /\ UNCHANGED <<applyVars, args, input_file, files, stdout, i, platform, outerVars, log>>

\* lines 386-392: cv2.imread gives None for what it cannot decode, and a
\* three-channel array otherwise.
Imread ==
    /\ pc = "imread"
    /\ IF input_file.state = "undecodable"
       THEN /\ stderr' = Append(stderr, "Erro: Nao foi possivel carregar a imagem")
            /\ exit_status' = 1
            /\ pc' = "exited"
            /\ UNCHANGED <<w, h, image, channels>>
       ELSE /\ image' = input_file.pixels
            /\ w' = input_file.w
            /\ h' = input_file.h
            /\ channels' = 3
            /\ pc' = IF args.single_output # "" THEN "draw_area" ELSE "batch"
            /\ UNCHANGED <<stderr, exit_status>>
    /\ UNCHANGED <<area_percent, eccentricity, fixed_angle, samplerLocals, maskVars,
                   add_noise_flag, noise_intensity, noiseVars, blendVars, args, input_file,
                   files, stdout, i, platform, outerVars, log>>

\* lines 433-447: the batch path's header, the output directory and the
\* copy of the original.
BatchHead ==
    /\ pc = "batch"
    /\ files' = Append(files, [number |-> 0, name |-> "original.png", data |-> image,
                               quality |-> 0])
    /\ stdout' = stdout \o << <<"Imagem carregada">>, <<"Dimensoes", w, h>>,
                              <<"Original salva">>, <<"Gerando", args.samples>> >>
    /\ i' = 0
    /\ pc' = "loop"
    /\ UNCHANGED <<applyVars, args, input_file, stderr, exit_status, platform, outerVars, log>>

\* line 449, and lines 488-490 when the range is exhausted: main returns and
\* the process exits with status 0.
LoopTest ==
    /\ pc = "loop"
    /\ IF i < args.samples
       THEN /\ pc' = "draw_area"
            /\ UNCHANGED <<stdout, exit_status>>
       ELSE /\ stdout' = Append(stdout, <<"amostras geradas", args.samples>>)
            /\ exit_status' = 0
            /\ pc' = "exited"
    /\ UNCHANGED <<applyVars, args, input_file, files, stderr, i, platform, outerVars, log>>

\* The area drawn from a generator that the seed does not reach.
DrawArea_unseeded ==
    /\ pc = "draw_area"
    /\ \E p \in AreaDraws(args.area_min, args.area_max) :
          /\ area_percent' = p
          /\ log' = Append(log, <<"area", p>>)
    /\ pc' = "draw_ecc"
    /\ UNCHANGED <<w, h, eccentricity, fixed_angle, samplerLocals, maskVars, argVars,
                   noiseVars, blendVars, mainVars, platform, outerVars>>

\* lines 395 and 451
DrawArea ==
    /\ pc = "draw_area"
    /\ \E p \in AreaDraws(args.area_min, args.area_max) :
          /\ Draw(<<"area", p>>)
          /\ area_percent' = p
          /\ log' = Append(log, <<"area", p>>)
    /\ pc' = "draw_ecc"
    /\ UNCHANGED <<w, h, eccentricity, fixed_angle, samplerLocals, maskVars, argVars,
                   noiseVars, blendVars, mainVars, platform, outerVars>>

\* lines 396-404 and 452-461: the eccentricity is drawn and
\* apply_elliptical_blur is called, angle left at None.
DrawEcc ==
    /\ pc = "draw_ecc"
    /\ \E e \in EccDraws(args.ecc_min, args.ecc_max) :
          /\ Draw(<<"ecc", e>>)
          /\ eccentricity' = e
          /\ log' = Append(log, <<"ecc", e>>)
    /\ fixed_angle' = NoAngle
    /\ add_noise_flag' = args.noise
    /\ noise_intensity' = args.noise_intensity
    /\ pc' = "radii"
    /\ UNCHANGED <<w, h, area_percent, samplerLocals, maskVars, image, channels,
                   noiseVars, blendVars, mainVars, platform, outerVars>>

\* params of line 353 as main reports them: motion_angle is the direction
\* <<dx, -dy>> of np.arctan2(-dy, dx).
Reported ==
    [area_percent |-> RoundHalfEven(Abs(area_percent.n) * 1000, area_percent.d),
     eccentricity |-> RoundHalfEven(EccTable[eccentricity].en * 1000, EccTable[eccentricity].ed),
     center |-> <<center_x, center_y>>,
     radii |-> <<a, b>>,
     ellipse_angle |-> angle,
     motion_angle |-> <<motion_dx, -motion_dy>>]

\* lines 405-415: single-output mode writes the degraded image.
SaveSingle ==
    /\ pc = "return"
    /\ MainCalls
    /\ args.single_output # ""
    /\ files' = Append(files, [number |-> NoNumber, name |-> args.single_output,
                               data |-> Stored(result),
                               quality |-> IF IsJpeg(args.single_output)
                                           THEN JpegQuality ELSE 0])
    /\ pc' = "report"
    /\ UNCHANGED <<applyVars, args, input_file, stdout, stderr, exit_status, i, platform,
                   outerVars, log>>

\* The report without its sys.exit(0): the run would go on into the batch path.
ReportSingle_fallthrough ==
    /\ pc = "report"
    /\ stdout' = Append(stdout, <<"json", Reported>>)
    /\ pc' = "batch"
    /\ UNCHANGED <<applyVars, args, input_file, files, stderr, exit_status, i, platform,
                   outerVars, log>>

\* lines 417-430: the JSON record on stdout, and sys.exit(0).
ReportSingle ==
    /\ pc = "report"
    /\ stdout' = Append(stdout, <<"json", Reported>>)
    /\ exit_status' = 0
    /\ pc' = "exited"
    /\ UNCHANGED <<applyVars, args, input_file, files, stderr, i, platform, outerVars, log>>

\* The sample saved under the loop index itself, i for i + 1.
SaveSample_zero_based ==
    /\ pc = "return"
    /\ MainCalls
    /\ args.single_output = ""
    /\ files' = files \o
          << [number |-> i, name |-> "degraded.png", data |-> Stored(result), quality |-> 0],
             [number |-> i, name |-> "mask_combined.png", data |-> mask_combined,
              quality |-> 0],
             [number |-> i, name |-> "mask_radial.png", data |-> mask_radial_visual,
              quality |-> 0],
             [number |-> i, name |-> "mask_ellipse.png", data |-> mask_ellipse_visual,
              quality |-> 0] >>
    /\ stdout' = Append(stdout, <<"Amostra", i + 1, Reported>>)
    /\ i' = i + 1
    /\ pc' = "loop"
    /\ UNCHANGED <<applyVars, args, input_file, stderr, exit_status, platform, outerVars, log>>

\* lines 462-486: the batch path writes the sample and its three masks, and
\* prints the sample's parameters.
SaveSample ==
    /\ pc = "return"
    /\ MainCalls
    /\ args.single_output = ""
    /\ files' = files \o
          << [number |-> i + 1, name |-> "degraded.png", data |-> Stored(result), quality |-> 0],
             [number |-> i + 1, name |-> "mask_combined.png", data |-> mask_combined,
              quality |-> 0],
             [number |-> i + 1, name |-> "mask_radial.png", data |-> mask_radial_visual,
              quality |-> 0],
             [number |-> i + 1, name |-> "mask_ellipse.png", data |-> mask_ellipse_visual,
              quality |-> 0] >>
    /\ stdout' = Append(stdout, <<"Amostra", i + 1, Reported>>)
    /\ i' = i + 1
    /\ pc' = "loop"
    /\ UNCHANGED <<applyVars, args, input_file, stderr, exit_status, platform, outerVars, log>>

\* An exception nothing catches: the traceback on stderr, exit status 1.
Uncaught ==
    /\ pc = "raised"
    /\ stderr' = Append(stderr, "Traceback")
    /\ exit_status' = 1
    /\ pc' = "exited"
    /\ UNCHANGED <<applyVars, args, input_file, files, stdout, i, platform, outerVars, log>>

\* lines 219-353
apply_elliptical_blur ==
    \/ Sampler
    \/ CreateGradientMask
    \/ EnterNoise
    \/ SkipNoise
    \/ AddNoise
    \/ Blend

Next ==
    \/ CheckExists
    \/ Imread
    \/ BatchHead
    \/ LoopTest
    \/ DrawArea
    \/ DrawEcc
    \/ apply_elliptical_blur
    \/ SaveSingle
    \/ ReportSingle
    \/ SaveSample
    \/ Uncaught

\* ------------------------------------------------------- the invocations
\* What the input path can hold: nothing, a file cv2.imread cannot decode, or
\* a picture ww wide and hh high.
Missing == [state |-> "missing", w |-> 0, h |-> 0, pixels |-> << >>]
Undecodable == [state |-> "undecodable", w |-> 0, h |-> 0, pixels |-> << >>]
Picture(ww, hh) ==
    [state |-> "image", w |-> ww, h |-> hh,
     pixels |-> [s \in (0 .. (ww - 1)) \X (0 .. (hh - 1)) \X (0 .. 2) |->
                    1 + ((40 * s[1] + 90 * s[2] + 100 * s[3]) % 254)]]

\* A picture of one pixel, a small one, and the narrowest one on which a
\* region fits at the 80 pixels' distance: 2 * MinEdgeGap + 1 wide and 1 high.
TinyPicture == Picture(1, 1)
SmallPicture == Picture(2, 2)
WidePicture == Picture(2 * MinEdgeGap + 1, 1)

\* A batch run of one sample with parameters in their ranges.
Usual ==
    [single_output |-> "", samples |-> 1,
     area_min |-> Frac(1, 4), area_max |-> Frac(1, 2),
     ecc_min |-> Frac(4, 5), ecc_max |-> Frac(24, 25),
     noise |-> FALSE, noise_intensity |-> Frac(1, 4)]

Single == [Usual EXCEPT !.single_output = "out/deg.jpg"]

\* The command lines of the model, each with the input it is run on.
Invocations ==
    { <<Usual, Missing>>,
      <<Usual, Undecodable>>,
      <<Single, Missing>>,
      <<Single, Undecodable>>,
      <<Single, SmallPicture>>,
      <<[Single EXCEPT !.single_output = "out/deg.png"], TinyPicture>>,
      <<[Single EXCEPT !.noise = TRUE], TinyPicture>>,
      <<[Single EXCEPT !.area_min = Frac(1, 100), !.area_max = Frac(1, 100)], WidePicture>>,
      <<[Single EXCEPT !.area_min = Frac(3, 2), !.area_max = Frac(3, 2)], SmallPicture>>,
      <<[Single EXCEPT !.area_min = Frac(-1, 4), !.area_max = Frac(-1, 4)], SmallPicture>>,
      <<[Single EXCEPT !.ecc_min = Frac(1, 1), !.ecc_max = Frac(1, 1)], SmallPicture>>,
      <<[Single EXCEPT !.ecc_min = Frac(5, 4), !.ecc_max = Frac(5, 4)], SmallPicture>>,
      <<[Single EXCEPT !.noise_intensity = Frac(2, 1)], TinyPicture>>,
      <<[Single EXCEPT !.noise = TRUE, !.noise_intensity = Frac(2, 1)], TinyPicture>>,
      <<[Single EXCEPT !.noise = TRUE, !.noise_intensity = Frac(-2, 1)], TinyPicture>>,
      <<[Usual EXCEPT !.samples = 0], SmallPicture>>,
      <<Usual, SmallPicture>>,
      <<[Usual EXCEPT !.samples = 2, !.area_max = Frac(1, 4)], TinyPicture>>,
      <<[Usual EXCEPT !.noise = TRUE, !.noise_intensity = Frac(1, 1)], TinyPicture>>,
      <<[Usual EXCEPT !.ecc_min = Frac(1, 1), !.ecc_max = Frac(1, 1)], SmallPicture>>,
      <<[Usual EXCEPT !.area_min = Frac(3, 2), !.area_max = Frac(3, 2)], TinyPicture>> }

\* The process as main finds it once the command line is parsed.
Started ==
    /\ pc = "start"
    /\ w = 0
    /\ h = 0
    /\ image = << >>
    /\ channels = 3
    /\ area_percent = Frac(0, 1)
    /\ eccentricity = 1
    /\ fixed_angle = NoAngle
    /\ add_noise_flag = FALSE
    /\ noise_intensity = Frac(0, 1)
    /\ SamplerIdle
    /\ MaskIdle
    /\ NoiseIdle
    /\ BlendIdle
    /\ NoOutput

Init ==
    /\ \E inv \in Invocations :
          /\ args = inv[1]
          /\ input_file = inv[2]
    /\ Started
    /\ Fresh
    /\ AnalysisIdle

Spec == Init /\ [][Next]_vars

\* ------------------------------------------------------ claims on main
SingleMode == args.single_output # ""
Exited == pc = "exited"

\* The files written under the name nm, and those among them numbered n.
Named(nm) == { k \in DOMAIN files : files[k].name = nm }
NamedNumbered(nm, n) == { k \in Named(nm) : files[k].number = n }

SampleNames == {"degraded.png", "mask_combined.png", "mask_radial.png", "mask_ellipse.png"}
DiagnosticNames == SampleNames \ {"degraded.png"}

\* C6: a batch run of N samples that completes has written exactly one copy
\* of the original, N degraded images and 3 * N diagnostic masks, one of each
\* name for every number 1 .. N and none under another number; and at every
\* moment of a batch run the first file written is the copy of the original.
C6_BatchArtifacts ==
    ~SingleMode =>
        /\ files # << >> => files[1].name = "original.png"
        /\ (Exited /\ exit_status = 0) =>
              /\ Cardinality(Named("original.png")) = 1
              /\ Cardinality(Named("degraded.png")) = args.samples
              /\ Cardinality(UNION { Named(nm) : nm \in DiagnosticNames }) = 3 * args.samples
              /\ Len(files) = 1 + 4 * args.samples
              /\ \A nm \in SampleNames :
                    /\ \A n \in 1 .. args.samples : Cardinality(NamedNumbered(nm, n)) = 1
                    /\ \A k \in Named(nm) : files[k].number \in 1 .. args.samples

\* C6 witness: a batch run of two samples has completed with its nine files.
C6_Witness ==
    /\ ~SingleMode
    /\ Exited
    /\ exit_status = 0
    /\ args.samples = 2
    /\ Len(files) = 9

\* The declared ranges: the area bounds in (0, 1), the eccentricity bounds in
\* [0, 1), the noise intensity in [0, 1].
InUnit(x, closed) == 0 <= x.n /\ (x.n < x.d \/ (closed /\ x.n = x.d))
OutOfRange ==
    \/ ~AreaInRange(args.area_min)
    \/ ~AreaInRange(args.area_max)
    \/ ~InUnit(args.ecc_min, FALSE)
    \/ ~InUnit(args.ecc_max, FALSE)
    \/ ~InUnit(args.noise_intensity, TRUE)

InputError == input_file.state \in {"missing", "undecodable"} \/ OutOfRange

\* C8: an invocation with an input error (the image missing or undecodable, or
\* a parameter outside its declared range) exits with a status other than 0
\* and writes no degraded image and no diagnostic mask.
C8_InputErrorFatal ==
    InputError =>
        /\ Exited => exit_status # 0
        /\ \A k \in DOMAIN files : files[k].name = "original.png"

\* The calls of apply_elliptical_blur so far: each follows the draw of an
\* eccentricity.
DegradationRuns == Cardinality({ k \in DOMAIN log : log[k][1] = "ecc" })

\* C9: in single-output mode no step of the batch path is ever taken, nothing
\* but the requested path is written and nothing but the JSON record printed;
\* an invocation that exits without an error message has made one degradation
\* run, written the degraded image alone, printed the one record, and exits 0.
C9_SingleOutput ==
    SingleMode =>
        /\ pc \notin {"batch", "loop"}
        /\ \A k \in DOMAIN files :
              files[k].name = args.single_output /\ files[k].number = NoNumber
        /\ \A k \in DOMAIN stdout : stdout[k][1] = "json"
        /\ (Exited /\ stderr = << >>) =>
              /\ DegradationRuns = 1
              /\ Len(files) = 1
              /\ files[1].data = Stored(result)
              /\ Len(stdout) = 1
              /\ stdout[1] = <<"json", Reported>>
              /\ exit_status = 0

\* C9 witness: a single-output invocation has exited with status 0.
C9_Witness ==
    /\ SingleMode
    /\ Exited
    /\ exit_status = 0
    /\ Len(files) = 1
    /\ Len(stdout) = 1

\* ------------------------------------------------------ two invocations
\* The locals of a fresh call of apply_elliptical_blur.
FreshCall ==
    /\ a' = 0
    /\ b' = 0
    /\ radial_angle' = NoAngle
    /\ max_dist_from_center' = Frac(0, 1)
    /\ dist' = Frac(0, 1)
    /\ center_x' = 0
    /\ center_y' = 0
    /\ angle' = NoAngle
    /\ ellipse_region' = {}
    /\ gradient' = << >>
    /\ noise_type' = "mixed"
    /\ noisy' = << >>
    /\ coords_salt' = << >>
    /\ coords_pepper' = << >>
    /\ result' = << >>
    /\ level' = 0

\* The command line is run a second time on the same input, on the same
\* platform, with np.random seeded as it was for the first run: what the
\* first run wrote and printed is kept aside, and the process starts afresh.
Reinvoke ==
    /\ pc = "exited"
    /\ first = NoRun
    /\ first' = << [files |-> files, stdout |-> stdout, stderr |-> stderr,
                    exit_status |-> exit_status] >>
    /\ seeded' = log
    /\ log' = << >>
    /\ pc' = "start"
    /\ w' = 0
    /\ h' = 0
    /\ image' = << >>
    /\ channels' = 3
    /\ area_percent' = Frac(0, 1)
    /\ eccentricity' = 1
    /\ fixed_angle' = NoAngle
    /\ add_noise_flag' = FALSE
    /\ noise_intensity' = Frac(0, 1)
    /\ FreshCall
    /\ files' = << >>
    /\ stdout' = << >>
    /\ stderr' = << >>
    /\ exit_status' = NotExited
    /\ i' = 0
    /\ UNCHANGED <<args, input_file, platform, analysisVars>>

\* What a call of apply_elliptical_blur returns, line 353.
Returned ==
    [result |-> Stored(result), mask_combined |-> mask_combined,
     mask_radial_visual |-> mask_radial_visual,
     mask_ellipse_visual |-> mask_ellipse_visual, params |-> Reported]

\* apply_elliptical_blur is called a second time with the arguments of the
\* first call, np.random seeded as it was for the first.
Recall ==
    /\ pc = "return"
    /\ ~MainCalls
    /\ first = NoRun
    /\ first' = << Returned >>
    /\ seeded' = log
    /\ log' = << >>
    /\ pc' = "radii"
    /\ FreshCall
    /\ UNCHANGED <<w, h, area_percent, eccentricity, fixed_angle, argVars, mainVars,
                   platform, analysisVars>>

\* The command lines run twice.
Reinvoked ==
    { <<Single, Missing>>,
      <<Single, TinyPicture>>,
      <<[Single EXCEPT !.noise = TRUE], TinyPicture>>,
      <<[Single EXCEPT !.area_min = Frac(1, 100), !.area_max = Frac(1, 100)], WidePicture>>,
      <<[Single EXCEPT !.ecc_min = Frac(1, 1), !.ecc_max = Frac(1, 1)], TinyPicture>>,
      <<Usual, TinyPicture>> }

\* The angles a caller fixes.
FixedAngles == { Unit(1, 0, 1), Unit(3, 4, 5) }

\* main is run on a command line of Reinvoked, or apply_elliptical_blur is
\* called on a decoded picture with its angle fixed.
InitRepro ==
    /\ \/ /\ \E inv \in Reinvoked :
                /\ args = inv[1]
                /\ input_file = inv[2]
          /\ Started
       \/ /\ pc = "radii"
          /\ image = TinyPicture.pixels
          /\ w = TinyPicture.w
          /\ h = TinyPicture.h
          /\ channels = 3
          /\ area_percent = Frac(1, 4)
          /\ eccentricity \in EccDraws(Usual.ecc_min, Usual.ecc_max)
          /\ fixed_angle \in FixedAngles
          /\ add_noise_flag \in BOOLEAN
          /\ noise_intensity = Frac(1, 4)
          /\ SamplerIdle
          /\ MaskIdle
          /\ NoiseIdle
          /\ BlendIdle
          /\ MainIdle
    /\ Fresh
    /\ AnalysisIdle

NextRepro ==
    \/ Next
    \/ Reinvoke
    \/ Recall

SpecRepro == InitRepro /\ [][NextRepro]_vars

\* The second run of main has exited; the second call has returned.
SecondExited == first # NoRun /\ MainCalls /\ Exited
SecondReturned == first # NoRun /\ ~MainCalls /\ pc = "return"

\* C5: an invocation repeated with the same command line, the same input and
\* the same seed writes the same files with the same content, prints the same
\* records and exits with the same status as the first one, and a call of
\* apply_elliptical_blur repeated with the same arguments and the same seed
\* returns the same image, masks and parameters, whichever branches (offset
\* drawn or clamped, angle fixed or drawn, noise on or off) consume the draws.
C5_Reproducible ==
    /\ SecondExited =>
          /\ files = first[1].files
          /\ stdout = first[1].stdout
          /\ stderr = first[1].stderr
          /\ exit_status = first[1].exit_status
    /\ SecondReturned => Returned = first[1]

\* C5 witness: a second invocation has replayed every draw of the first,
\* noise draws among them, and has exited after writing its image.
C5_Witness ==
    /\ SecondExited
    /\ exit_status = 0
    /\ files # << >>
    /\ log = seeded
    /\ \E k \in DOMAIN log : log[k][1] = "normal"

\* A second call with its angle fixed has returned.
FixedAngleReplayed == SecondReturned /\ fixed_angle # NoAngle /\ log = seeded

\* A second invocation has replayed a drawn offset; another a clamped one.
DrawnOffsetReplayed ==
    SecondExited /\ exit_status = 0 /\ \E k \in DOMAIN log : log[k][1] = "dist"
ClampedOffsetReplayed ==
    SecondExited /\ exit_status = 0 /\ ~ \E k \in DOMAIN log : log[k][1] = "dist"

\* --------------------------------------------- the compositor on its own
\* apply_elliptical_blur from the point where the region is placed: a picture
\* of 2 * MaxSide + 1 by 2 * MaxSide pixels, with a region of a few pixels
\* and one of many.
BlendPicture == Picture(2 * MaxSide + 1, 2 * MaxSide)

\* The regions of the calls: <<center_x, center_y, a, b, angle>>.
BlendRegions ==
    { <<MaxSide + 1, MaxSide, 1, 0, Unit(1, 0, 1)>>,
      <<MaxSide + 2, MaxSide + 1, 3, 2, Unit(3, 4, 5)>> }

InitBlend ==
    /\ pc = "mask"
    /\ image = BlendPicture.pixels
    /\ w = BlendPicture.w
    /\ h = BlendPicture.h
    /\ channels = 3
    /\ \E r \in BlendRegions :
          /\ center_x = r[1]
          /\ center_y = r[2]
          /\ a = r[3]
          /\ b = r[4]
          /\ angle = r[5]
    /\ area_percent = Frac(0, 1)
    /\ eccentricity = 1
    /\ fixed_angle = angle
    /\ radial_angle = NoAngle
    /\ max_dist_from_center = Frac(0, 1)
    /\ dist = Frac(0, 1)
    /\ MaskIdle
    /\ add_noise_flag = FALSE
    /\ noise_intensity = Frac(1, 2)
    /\ NoiseIdle
    /\ BlendIdle
    /\ MainIdle
    /\ Fresh
    /\ AnalysisIdle

\* The call is made again on the same image and region with add_noise_flag
\* set, what the call without noise returned being kept aside.
Renoise ==
    /\ pc = "return"
    /\ ~MainCalls
    /\ ~add_noise_flag
    /\ first = NoRun
    /\ first' = << [result |-> result, gradient |-> gradient] >>
    /\ add_noise_flag' = TRUE
    /\ ellipse_region' = {}
    /\ gradient' = << >>
    /\ noise_type' = "mixed"
    /\ noisy' = << >>
    /\ coords_salt' = << >>
    /\ coords_pepper' = << >>
    /\ result' = << >>
    /\ level' = 0
    /\ pc' = "mask"
    /\ UNCHANGED <<samplerVars, image, channels, noise_intensity, mainVars, platform,
                   seeded, log, analysisVars>>

NextBlend ==
    \/ CreateGradientMask
    \/ EnterNoise
    \/ SkipNoise
    \/ AddNoise
    \/ Blend
    \/ Renoise

SpecBlend == InitBlend /\ [][NextBlend]_vars

\* ---------------------------------------------- claims on the compositor
\* The loop is running or has run: result is the accumulator.
Blending == pc \in {"blend", "return"}

\* C11: with noise disabled every pixel outside the ellipse region, where
\* the gradient is 0, keeps the value of the input image in every channel,
\* after each blur level and in the degraded output.
C11_OutsideUnchanged ==
    (Blending /\ ~add_noise_flag) =>
        \A s \in Samples :
            gradient[<<s[1], s[2]>>] = 0 => result[s] = image[s] * Scale

\* C11 witness: the degraded output is returned without noise, a pixel
\* outside the region has kept its value and one inside has changed.
C11_Witness ==
    /\ pc = "return"
    /\ ~add_noise_flag
    /\ \E s \in Samples : gradient[<<s[1], s[2]>>] = 0
    /\ \E s \in Samples : gradient[<<s[1], s[2]>>] > 0 /\ result[s] # image[s] * Scale

\* C14: every blur level convolves the original input image, never the
\* accumulator and never the noise-injected image: a turn of the loop blends
\* into the accumulator the original filtered with that level's kernel, and
\* the original is left as it was.  The noisy image is the blend base only.
C14_BlursOriginal ==
    [][(pc = "blend" /\ level' = level + 1) =>
          /\ image' = image
          /\ \A s \in Samples :
                LET m == level_mask(level, <<s[1], s[2]>>)
                    src == filter2D(image, platform'["kernel"].out,
                                    blur_levels[level + 1], s)
                IN  result'[s] = (result[s] * (Scale - m) + src * m) \div Scale]_vars

\* C14 witness: with noise injected, a level has replaced a pixel by the
\* filtered original, which differs there from the filtered noisy image.
C14_Witness ==
    /\ add_noise_flag
    /\ pc = "blend"
    /\ level > 0
    /\ \E s \in Samples :
          /\ level_mask(level - 1, <<s[1], s[2]>>) = Scale
          /\ result[s] = filter2D(image, platform["kernel"].out, blur_levels[level], s)
          /\ result[s] # filter2D(ToUint8(noisy), platform["kernel"].out,
                                  blur_levels[level], s)

\* The band of a pixel, k with gradient in [k / N, (k + 1) / N), and its
\* place in the band, f = gradient * N - k.
Band(p) == (NumLevels * gradient[p]) \div Scale
InBand(p) == NumLevels * gradient[p] - Band(p) * Scale

\* The blend base: the image, or the noise-injected image.
BlendBase == IF add_noise_flag THEN AsFloat(ToUint8(noisy)) ELSE AsFloat(image)

\* The original filtered with the kernel of the level applied last.
LastBlurred(s) == filter2D(image, platform["kernel"].out, blur_levels[level], s)

\* While the levels not above a pixel's band are applied, the pixel is the
\* blend base before the first and the last level's blurred value after it.
BelowBand ==
    pc = "blend" =>
        \A s \in Samples :
            Band(<<s[1], s[2]>>) >= level =>
                result[s] = IF level = 0 THEN BlendBase[s] ELSE LastBlurred(s)

\* A turn of the loop takes the next larger kernel and, for a pixel of band k,
\* replaces it below k, mixes it by f at k and leaves it above k.
LevelStep ==
    (pc = "blend" /\ level' = level + 1) =>
        /\ level > 0 => blur_levels[level + 1] > blur_levels[level]
        /\ \A s \in Samples :
              LET k == Band(<<s[1], s[2]>>)
                  f == InBand(<<s[1], s[2]>>)
                  src == filter2D(image, platform'["kernel"].out,
                                  blur_levels[level + 1], s)
              IN  result'[s] =
                     IF level < k THEN src
                     ELSE IF level = k THEN (result[s] * (Scale - f) + src * f) \div Scale
                     ELSE result[s]

\* C15: the levels are applied in strictly increasing kernel size; level i
\* changes a pixel only where the gradient exceeds i / N; a pixel of band k
\* and place f is the level's blurred value after every level below k,
\* prev * (1 - f) + blurred_k * f after level k with prev the value it had,
\* blurred_(k - 1) or the blend base, and unchanged after that; at gradient 1
\* it ends as the strongest level's blurred value.
C15_BandedBlend == []BelowBand /\ [][LevelStep]_vars

\* C15 witness: the loop has run; a pixel of gradient 1 holds the strongest
\* level's blurred value, and a pixel inside a middle band holds a mix that
\* is neither the image nor that value.
C15_Witness ==
    /\ pc = "blend"
    /\ level = NumLevels
    /\ \E s \in Samples :
          /\ gradient[<<s[1], s[2]>>] = Scale
          /\ result[s] = LastBlurred(s)
    /\ \E s \in Samples :
          /\ Band(<<s[1], s[2]>>) \in 1 .. (NumLevels - 2)
          /\ InBand(<<s[1], s[2]>>) > 0
          /\ result[s] # LastBlurred(s)
          /\ result[s] # BlendBase[s]

\* The kernel built last, as its size and the cells of weight 1 / kernel.sum().
LastKernelSize == platform["kernel"].in[1]
LastKernelCells == platform["kernel"].out

\* C16: every kernel the compositor builds is a square matrix of odd size
\* whose centre entry is on the drawn line, whose entries are non-negative
\* (the drawn cells lie in the matrix and share the weight 1 / kernel.sum())
\* and sum to 1 (at least one cell is drawn).
C16_KernelInvariant ==
    (Blending /\ level > 0) =>
        /\ LastKernelSize = blur_levels[level]
        /\ LastKernelSize % 2 = 1
        /\ <<LastKernelSize \div 2, LastKernelSize \div 2>> \in LastKernelCells
        /\ LastKernelCells \subseteq
              (0 .. (LastKernelSize - 1)) \X (0 .. (LastKernelSize - 1))
        /\ Cardinality(LastKernelCells) > 0

\* The call with noise has returned, after the call without it.
NoisyReturned == first # NoRun /\ ~MainCalls /\ add_noise_flag /\ pc = "return"

\* The pixels the first level replaces: gradient at least 1 / N.
StronglyBlurred(p) == NumLevels * gradient[p] >= Scale

\* C18: at every pixel whose gradient is at least 1 / N the degraded output
\* is the same with noise injected, whatever the draws, as without it; noise
\* shows in the output only at pixels of gradient below 1 / N.
C18_NoiseBelowFirstBand ==
    NoisyReturned =>
        \A s \in Samples :
            StronglyBlurred(<<s[1], s[2]>>) => result[s] = first[1].result[s]

\* C18 witness: the noisy call has returned; at a strongly blurred pixel the
\* noise had changed the blend base and the output is that of the call
\* without noise, and at a pixel of the region below 1 / N the outputs differ.
C18_Witness ==
    /\ NoisyReturned
    /\ \E s \in Samples :
          /\ StronglyBlurred(<<s[1], s[2]>>)
          /\ ToUint8(noisy)[s] # image[s]
          /\ result[s] = first[1].result[s]
    /\ \E s \in Samples :
          /\ gradient[<<s[1], s[2]>>] > 0
          /\ ~StronglyBlurred(<<s[1], s[2]>>)
          /\ result[s] # first[1].result[s]

\* ------------------------- analyze_results: ResultsAnalyzer.calculate_metrics
\* The image indices of a group, 0 .. MaxIndex, and None.
MaxIndex == 2
NoIndex == -1
Indices == (0 .. MaxIndex) \cup { NoIndex }

\* has_match is True, False or None; Python takes None for false.
Truthy(v) == v = "True"

\* The four categories of the dictionary.
Categories ==
    { "verdadeiro_positivo", "verdadeiro_negativo", "falso_positivo", "falso_negativo" }

\* lines 100-107
ZeroMetrics(r) ==
    [conclusivo |-> IF r.conclusive THEN 1 ELSE 0,
     identificou |-> 0,
     verdadeiro_positivo |-> 0,
     verdadeiro_negativo |-> 0,
     falso_positivo |-> 0,
     falso_negativo |-> 0]

\* lines 113-138: the dictionary of a response taken as conclusive.
Classified(r) ==
    LET marked == [ZeroMetrics(r) EXCEPT
                      !.identificou = IF r.has_match # "None" /\ Truthy(r.has_match)
                                      THEN 1 ELSE 0]
    IN  IF r.has_same_source
        THEN IF Truthy(r.has_match)
             THEN IF r.matched_image_index = r.true_match_index
                  THEN [marked EXCEPT !.verdadeiro_positivo = 1]
                  ELSE [marked EXCEPT !.falso_positivo = 1]
             ELSE [marked EXCEPT !.falso_negativo = 1]
        ELSE IF Truthy(r.has_match)
             THEN [marked EXCEPT !.falso_positivo = 1]
             ELSE [marked EXCEPT !.verdadeiro_negativo = 1]

\* The function without the early return of lines 110-111.
calculate_metrics_unguarded(r) == Classified(r)

\* lines 81-140
calculate_metrics(r) == IF ~r.conclusive THEN ZeroMetrics(r) ELSE Classified(r)

\* The call and its return.
CalculateMetrics ==
    /\ pc = "calculate_metrics"
    /\ metrics' = calculate_metrics(response)
    /\ pc' = "metrics"
    /\ UNCHANGED <<samplerVars, maskVars, argVars, noiseVars, blendVars, mainVars,
                   platform, seeded, first, response, log>>

\* calculate_metrics is called on any response.
InitMetrics ==
    /\ pc = "calculate_metrics"
    /\ response \in [has_same_source : BOOLEAN,
                     true_match_index : Indices,
                     conclusive : BOOLEAN,
                     has_match : {"True", "False", "None"},
                     matched_image_index : Indices]
    /\ metrics = NoMetrics
    /\ w = 0
    /\ h = 0
    /\ image = << >>
    /\ channels = 3
    /\ area_percent = Frac(0, 1)
    /\ eccentricity = 1
    /\ fixed_angle = NoAngle
    /\ add_noise_flag = FALSE
    /\ noise_intensity = Frac(0, 1)
    /\ SamplerIdle
    /\ MaskIdle
    /\ NoiseIdle
    /\ BlendIdle
    /\ MainIdle
    /\ Fresh

NextMetrics == CalculateMetrics

SpecMetrics == InitMetrics /\ [][NextMetrics]_vars

\* ------------------------------------------ claims on calculate_metrics
MetricsDone == pc = "metrics"

\* The categories the dictionary sets to 1.
SetCategories == { c \in Categories : metrics[c] = 1 }

\* C17: a non-conclusive response has all four categories 0; a conclusive
\* one has exactly one of them 1, the others 0; the true positive is set
\* only when the group has a same-source match, the participant claimed a
\* match and the claimed index equals the ground-truth index.
C17_OneCategory ==
    MetricsDone =>
        /\ \A c \in Categories : metrics[c] \in {0, 1}
        /\ ~response.conclusive => SetCategories = {}
        /\ response.conclusive => Cardinality(SetCategories) = 1
        /\ metrics.verdadeiro_positivo = 1 =>
              /\ response.has_same_source
              /\ response.has_match = "True"
              /\ response.matched_image_index = response.true_match_index

\* C17 witness: a conclusive response that names the right image has come
\* back as a true positive.
C17_Witness ==
    /\ MetricsDone
    /\ response.conclusive
    /\ response.matched_image_index # NoIndex
    /\ metrics.verdadeiro_positivo = 1

============================================================================
